---- MODULE Spec2Model ----
(***************************************************************************)
(* Model of the collaborative canvas server: the RoomManager registry, the *)
(* DrawingManager store (src/unnamed/part_000 and its copy in              *)
(* src/server.js) and the socket handlers of CollaborativeCanvasServer.    *)
(*                                                                         *)
(* JavaScript objects are shared by reference: the stroke stored in        *)
(* currentStrokes is the very object pushed on strokes.  The model keeps   *)
(* every action object in `heap` and lets strokes, undoneStrokes and       *)
(* currentStrokes hold references (indices into heap).                     *)
(*                                                                         *)
(* Spec starts from the freshly constructed server.  CrowdedSpec starts    *)
(* from the default room filled to settings.maxUsers by connections that   *)
(* stay idle, so that a join to a full room is reached without enumerating *)
(* fifty joins.                                                            *)
(***************************************************************************)
EXTENDS Integers, Sequences, FiniteSets, TLC

\* ---------------------------------------------------------------- bounds
MaxObjs    == 2      \* action objects ever created
MaxVersion == 4      \* cap on a room's version counter
MaxSaves   == 1      \* canvases ever saved
MaxConnects == 2     \* connect events a client's socket sees

\* ------------------------------------------------------- program constants
maxUsers == 50       \* settings.maxUsers of the default room

Sockets     == {1, 2}            \* socket ids ever handed out
SystemId    == 0                 \* the userId 'system' of a clear action
DefaultRoom == "default"
NoRef       == 0                 \* null / undefined reference

\* ids: a client-supplied token, a server-generated one, clear-<time>, or none
ClientIds  == {<<"client", 1>>}
NoId       == <<"none", 0>>
GenId(n)   == <<"gen", n>>
ClearId(t) == <<"clear", t>>
Clock      == {1, 2}             \* values of Date.now()
Coords     == {1}

\* generateUserColor() and the guest name `Artist${n}` are random picks
Palette    == {"#ff4757"}
GuestNames == {"Artist7"}
\* payload of user-name: the name the client chose
UserNames  == {"ann", "bob"}
\* payload of cursor-move: {x, y}
CursorData == [x : Coords, y : Coords]

\* payload of draw-start: {x, y, color, ..., strokeId}; a raw client may omit strokeId
StartData  == [x : Coords, strokeId : ClientIds \cup {NoId}]
\* payload of draw-move: {x, y, strokeId}
MoveData   == [x : Coords, strokeId : ClientIds]
\* payload of draw-end: {strokeId, timestamp}
EndData    == [strokeId : ClientIds]
\* payloads of draw-shape / add-text / add-image: objects carrying an id
ObjectData == [id : ClientIds]
\* payload of fill-area: {x, y, color}, no id
FillData   == [x : Coords]

Null      == [kind |-> "null"]
Undefined == [kind |-> "undefined"]
Thrown    == [kind |-> "throws"]
Ref(r)    == [kind |-> "ref", ref |-> r]

VARIABLES
    rooms,        \* RoomManager.rooms : roomId -> [users (insertion-ordered Set), maxUsers]
    users,        \* RoomManager.users : socketId -> user record
    roomStates,   \* DrawingManager.roomStates : roomId -> room state
    heap,         \* the action objects, by reference
    conn,         \* per socket id: "fresh", "open", "rejected" or "closed"
    last,         \* the handler that ran last: [op, socket, ret]
    emitted,      \* the messages that handler emitted: [to, event, payload]
    savedCanvases, \* RoomManager.savedCanvases : canvasId -> saveData
    files,        \* the saves directory : canvasId -> parsed content of <canvasId>.json
    objects,      \* per client, DrawingCanvas.objects
    upstream,     \* per client, the events it emitted that the server has not handled yet
    downstream,   \* per client, the events sent to it that it has not handled yet
    history,      \* per client, DrawingCanvas.strokeHistory (its length) and historyIndex
    isConnected,  \* per client, SocketManager.isConnected
    pendingEvents \* per client, SocketManager.pendingEvents

vars == <<rooms, users, roomStates, heap, conn, last, emitted,
          savedCanvases, files, objects, upstream, downstream, history,
                   isConnected, pendingEvents>>

\* ------------------------------------------------------------ DrawingManager

newRoomState ==
    [strokes        |-> <<>>,
     undoneStrokes  |-> <<>>,
     currentStrokes |-> [u \in Sockets |-> NoRef],
     canvasState    |-> "clean",
     version        |-> 1]

getRoomState_wipeOthers(rs, roomId) ==
    IF roomId \in DOMAIN rs THEN rs
    ELSE [k \in DOMAIN rs \cup {roomId} |-> newRoomState]

\* getRoomState: the room's state, created on first reference
getRoomState(rs, roomId) ==
    IF roomId \in DOMAIN rs THEN rs ELSE (roomId :> newRoomState) @@ rs

Front(s) == SubSeq(s, 1, Len(s) - 1)
Last(s)  == s[Len(s)]

startStroke_keepRedo(rs, hp, roomId, userId, startPoint) ==
    LET rs1    == getRoomState(rs, roomId)
        ref    == Len(hp) + 1
        stroke == [id     |-> IF startPoint.strokeId # NoId
                              THEN startPoint.strokeId ELSE GenId(ref),
                   userId |-> userId,
                   points |-> <<startPoint>>,
                   type   |-> "stroke"]
    IN  [roomStates |-> [rs1 EXCEPT ![roomId] =
                            [@ EXCEPT !.currentStrokes = [@ EXCEPT ![userId] = ref],
                                      !.strokes        = Append(@, ref),
                                      !.version        = @ + 1]],
         heap       |-> Append(hp, stroke),
         ret        |-> Ref(ref)]

startStroke_replace(rs, hp, roomId, userId, startPoint) ==
    LET rs1    == getRoomState(rs, roomId)
        ref    == Len(hp) + 1
        old    == rs1[roomId].currentStrokes[userId]
        stroke == [id     |-> IF startPoint.strokeId # NoId
                              THEN startPoint.strokeId ELSE GenId(ref),
                   userId |-> userId,
                   points |-> <<startPoint>>,
                   type   |-> "stroke"]
    IN  [roomStates |-> [rs1 EXCEPT ![roomId] =
                            [@ EXCEPT !.currentStrokes = [@ EXCEPT ![userId] = ref],
                                      !.strokes        =
                                          Append(SelectSeq(@, LAMBDA r : r # old), ref),
                                      !.undoneStrokes  = <<>>,
                                      !.version        = @ + 1]],
         heap       |-> Append(hp, stroke),
         ret        |-> Ref(ref)]

startStroke(rs, hp, roomId, userId, startPoint) ==
    LET rs1    == getRoomState(rs, roomId)
        ref    == Len(hp) + 1
        stroke == [id     |-> IF startPoint.strokeId # NoId
                              THEN startPoint.strokeId ELSE GenId(ref),
                   userId |-> userId,
                   points |-> <<startPoint>>,
                   type   |-> "stroke"]
    IN  [roomStates |-> [rs1 EXCEPT ![roomId] =
                            [@ EXCEPT !.currentStrokes = [@ EXCEPT ![userId] = ref],
                                      !.strokes        = Append(@, ref),
                                      !.undoneStrokes  = <<>>,
                                      !.version        = @ + 1]],
         heap       |-> Append(hp, stroke),
         ret        |-> Ref(ref)]

addStrokePoint_lastOwn(rs, hp, roomId, userId, point) ==
    LET rs1  == getRoomState(rs, roomId)
        cur  == rs1[roomId].currentStrokes[userId]
        own  == {r \in 1..Len(hp) : hp[r].type = "stroke" /\ hp[r].userId = userId}
        ref  == IF cur # NoRef \/ own = {} THEN cur
                ELSE CHOOSE r \in own : \A q \in own : q <= r
    IN  IF ref # NoRef
        THEN [roomStates |-> [rs1 EXCEPT ![roomId].version = @ + 1],
              heap       |-> [hp EXCEPT ![ref].points = Append(@, point)],
              ret        |-> [kind |-> "point", strokeId |-> hp[ref].id, point |-> point]]
        ELSE [roomStates |-> rs1, heap |-> hp, ret |-> Null]

addStrokePoint(rs, hp, roomId, userId, point) ==
    LET rs1 == getRoomState(rs, roomId)
        ref == rs1[roomId].currentStrokes[userId]
    IN  IF ref # NoRef
        THEN [roomStates |-> [rs1 EXCEPT ![roomId].version = @ + 1],
              heap       |-> [hp EXCEPT ![ref].points = Append(@, point)],
              ret        |-> [kind |-> "point", strokeId |-> hp[ref].id, point |-> point]]
        ELSE [roomStates |-> rs1, heap |-> hp, ret |-> Null]

endStroke_ifPresent(rs, hp, roomId, userId) ==
    LET rs1 == getRoomState(rs, roomId)
    IN  IF rs1[roomId].currentStrokes[userId] # NoRef
        THEN [roomStates |-> [rs1 EXCEPT ![roomId] =
                                 [@ EXCEPT !.currentStrokes = [@ EXCEPT ![userId] = NoRef],
                                           !.version        = @ + 1]],
              heap       |-> hp,
              ret        |-> Undefined]
        ELSE [roomStates |-> rs1, heap |-> hp, ret |-> Undefined]

endStroke(rs, hp, roomId, userId) ==
    LET rs1 == getRoomState(rs, roomId)
    IN  [roomStates |-> [rs1 EXCEPT ![roomId] =
                            [@ EXCEPT !.currentStrokes = [@ EXCEPT ![userId] = NoRef],
                                      !.version        = @ + 1]],
         heap       |-> hp,
         ret        |-> Undefined]

clearCanvas_wipe(rs, hp, roomId, now) ==
    LET rs1         == getRoomState(rs, roomId)
        ref         == Len(hp) + 1
        clearAction == [id |-> ClearId(now), type |-> "clear", userId |-> SystemId]
    IN  [roomStates |-> [rs1 EXCEPT ![roomId] =
                            [@ EXCEPT !.strokes       = <<ref>>,
                                      !.undoneStrokes = <<>>,
                                      !.version       = @ + 1]],
         heap       |-> Append(hp, clearAction),
         ret        |-> Undefined]

clearCanvas(rs, hp, roomId, now) ==
    LET rs1         == getRoomState(rs, roomId)
        ref         == Len(hp) + 1
        clearAction == [id |-> ClearId(now), type |-> "clear", userId |-> SystemId]
    IN  [roomStates |-> [rs1 EXCEPT ![roomId] =
                            [@ EXCEPT !.strokes       = Append(@, ref),
                                      !.undoneStrokes = <<>>,
                                      !.version       = @ + 1]],
         heap       |-> Append(hp, clearAction),
         ret        |-> Undefined]

undo(rs, hp, roomId) ==
    LET rs1 == getRoomState(rs, roomId)
        st  == rs1[roomId]
    IN  IF Len(st.strokes) > 0
        THEN [roomStates |-> [rs1 EXCEPT ![roomId] =
                                 [@ EXCEPT !.strokes       = Front(st.strokes),
                                           !.undoneStrokes = Append(@, Last(st.strokes)),
                                           !.version       = @ + 1]],
              heap       |-> hp,
              ret        |-> Ref(Last(st.strokes))]
        ELSE [roomStates |-> rs1, heap |-> hp, ret |-> Null]

redo_noVersion(rs, hp, roomId) ==
    LET rs1 == getRoomState(rs, roomId)
        st  == rs1[roomId]
    IN  IF Len(st.undoneStrokes) > 0
        THEN [roomStates |-> [rs1 EXCEPT ![roomId] =
                                 [@ EXCEPT !.undoneStrokes = Front(st.undoneStrokes),
                                           !.strokes       = Append(@, Last(st.undoneStrokes))]],
              heap       |-> hp,
              ret        |-> Ref(Last(st.undoneStrokes))]
        ELSE [roomStates |-> rs1, heap |-> hp, ret |-> Null]

redo_unshift(rs, hp, roomId) ==
    LET rs1 == getRoomState(rs, roomId)
        st  == rs1[roomId]
    IN  IF Len(st.undoneStrokes) > 0
        THEN [roomStates |-> [rs1 EXCEPT ![roomId] =
                                 [@ EXCEPT !.undoneStrokes = Front(st.undoneStrokes),
                                           !.strokes       = <<Last(st.undoneStrokes)>> \o @,
                                           !.version       = @ + 1]],
              heap       |-> hp,
              ret        |-> Ref(Last(st.undoneStrokes))]
        ELSE [roomStates |-> rs1, heap |-> hp, ret |-> Null]

redo(rs, hp, roomId) ==
    LET rs1 == getRoomState(rs, roomId)
        st  == rs1[roomId]
    IN  IF Len(st.undoneStrokes) > 0
        THEN [roomStates |-> [rs1 EXCEPT ![roomId] =
                                 [@ EXCEPT !.undoneStrokes = Front(st.undoneStrokes),
                                           !.strokes       = Append(@, Last(st.undoneStrokes)),
                                           !.version       = @ + 1]],
              heap       |-> hp,
              ret        |-> Ref(Last(st.undoneStrokes))]
        ELSE [roomStates |-> rs1, heap |-> hp, ret |-> Null]

\* --------------------------------------------------------------- RoomManager

addUser_offByOne(rms, us, socketId, roomId, color, name) ==
    IF roomId \notin DOMAIN rms
    THEN [rooms |-> rms, users |-> us, ret |-> Thrown]
    ELSE IF Len(rms[roomId].users) > rms[roomId].maxUsers
    THEN [rooms |-> rms, users |-> us, ret |-> Thrown]
    ELSE LET user == [id      |-> socketId,
                      color   |-> color,
                      cursor  |-> [x |-> 0, y |-> 0],
                      roomId  |-> roomId,
                      name    |-> name,
                      isGuest |-> TRUE]
         IN  [rooms |-> [rms EXCEPT ![roomId].users =
                            IF \E i \in 1..Len(@) : @[i] = socketId
                            THEN @ ELSE Append(@, socketId)],
              users |-> (socketId :> user) @@ us,
              ret   |-> [kind |-> "user", user |-> user]]

\* color and name stand for the two Math.random() picks of the call
addUser_front(rms, us, socketId, roomId, color, name) ==
    IF roomId \notin DOMAIN rms
    THEN [rooms |-> rms, users |-> us, ret |-> Thrown]
    ELSE IF Len(rms[roomId].users) >= rms[roomId].maxUsers
    THEN [rooms |-> rms, users |-> us, ret |-> Thrown]
    ELSE LET user == [id      |-> socketId,
                      color   |-> color,
                      cursor  |-> [x |-> 0, y |-> 0],
                      roomId  |-> roomId,
                      name    |-> name,
                      isGuest |-> TRUE]
         IN  [rooms |-> [rms EXCEPT ![roomId].users = <<socketId>> \o @],
              users |-> (socketId :> user) @@ us,
              ret   |-> [kind |-> "user", user |-> user]]

addUser(rms, us, socketId, roomId, color, name) ==
    IF roomId \notin DOMAIN rms
    THEN [rooms |-> rms, users |-> us, ret |-> Thrown]
    ELSE IF Len(rms[roomId].users) >= rms[roomId].maxUsers
    THEN [rooms |-> rms, users |-> us, ret |-> Thrown]
    ELSE LET user == [id      |-> socketId,
                      color   |-> color,
                      cursor  |-> [x |-> 0, y |-> 0],
                      roomId  |-> roomId,
                      name    |-> name,
                      isGuest |-> TRUE]
         IN  [rooms |-> [rms EXCEPT ![roomId].users =
                            IF \E i \in 1..Len(@) : @[i] = socketId
                            THEN @ ELSE Append(@, socketId)],
              users |-> (socketId :> user) @@ us,
              ret   |-> [kind |-> "user", user |-> user]]

removeUser_tableOnly(rms, us, socketId) ==
    IF socketId \in DOMAIN us
    THEN [rooms |-> rms,
          users |-> [k \in DOMAIN us \ {socketId} |-> us[k]]]
    ELSE [rooms |-> rms, users |-> us]

removeUser(rms, us, socketId) ==
    IF socketId \in DOMAIN us
    THEN LET roomId == us[socketId].roomId
         IN  [rooms |-> IF roomId \in DOMAIN rms
                        THEN [rms EXCEPT ![roomId].users =
                                 SelectSeq(@, LAMBDA m : m # socketId)]
                        ELSE rms,
              users |-> [k \in DOMAIN us \ {socketId} |-> us[k]]]
    ELSE [rooms |-> rms, users |-> us]

updateUserCursor_everyone(us, socketId, cursor) ==
    IF socketId \in DOMAIN us
    THEN LET moved == [u \in DOMAIN us |-> [us[u] EXCEPT !.cursor = cursor]]
         IN  [users |-> moved,
              ret   |-> [kind |-> "user", user |-> moved[socketId]]]
    ELSE [users |-> us, ret |-> Null]

updateUserCursor(us, socketId, cursor) ==
    IF socketId \in DOMAIN us
    THEN LET user == [us[socketId] EXCEPT !.cursor = cursor]
         IN  [users |-> [us EXCEPT ![socketId] = user],
              ret   |-> [kind |-> "user", user |-> user]]
    ELSE [users |-> us, ret |-> Null]

updateUserName(us, socketId, name) ==
    IF socketId \in DOMAIN us
    THEN LET user == [us[socketId] EXCEPT !.name = name, !.isGuest = FALSE]
         IN  [users |-> [us EXCEPT ![socketId] = user],
              ret   |-> [kind |-> "user", user |-> user]]
    ELSE [users |-> us, ret |-> Null]

getRoomUsers(rms, us, roomId) ==
    IF roomId \notin DOMAIN rms THEN <<>>
    ELSE LET present == SelectSeq(rms[roomId].users, LAMBDA m : m \in DOMAIN us)
         IN  [i \in 1..Len(present) |-> us[present[i]]]

\* ------------------------------------------------------------------- sockets

\* the sockets that have joined the socket.io room (socket.join at line 435;
\* socket.io drops a socket from its rooms when it disconnects)
InRoom == {s \in DOMAIN conn : conn[s] = "open"}

ToPeers_skipNewest(s, event, payload) ==
    {[to |-> t, event |-> event, payload |-> payload] :
        t \in {u \in InRoom \ {s} : \E v \in InRoom : v > u}}

ToPeers_echo(s, event, payload) ==
    {[to |-> t, event |-> event, payload |-> payload] : t \in InRoom}

\* socket.to(roomId).emit(event, payload): everyone in the room but the sender
ToPeers(s, event, payload) ==
    {[to |-> t, event |-> event, payload |-> payload] : t \in InRoom \ {s}}

\* io.to(roomId).emit(event, payload): everyone in the room
ToAll(event, payload) ==
    {[to |-> t, event |-> event, payload |-> payload] : t \in InRoom}

Wire_dropLast(hp, refs) == [i \in 1..(Len(refs) - 1) |-> hp[refs[i]]]

\* what JSON serialisation of a list of action objects puts on the wire
Wire(hp, refs) == [i \in 1..Len(refs) |-> hp[refs[i]]]

RS == roomStates[DefaultRoom]

\* DrawingCanvas.addToHistory: drop the entries after historyIndex, push a
\* snapshot of the canvas, and shift the oldest out beyond maxHistorySize
maxHistorySize == 100
addToHistory(h) ==
    LET kept == IF h.index < h.length - 1 THEN h.index + 1 ELSE h.length
    IN  IF kept + 1 > maxHistorySize
        THEN [length |-> kept, index |-> h.index]
        ELSE [length |-> kept + 1, index |-> h.index + 1]

\* the constructor's initializeHistory() on strokeHistory = [], historyIndex = -1
initializeHistory == addToHistory([length |-> 0, index |-> -1])

Init ==
    /\ rooms = (DefaultRoom :> [id |-> DefaultRoom, users |-> <<>>, maxUsers |-> maxUsers])
    /\ users = <<>>
    /\ roomStates = (DefaultRoom :> newRoomState)
    /\ heap = <<>>
    /\ conn = [s \in Sockets |-> "fresh"]
    /\ last = [op |-> "init", socket |-> NoRef, ret |-> Undefined]
    /\ emitted = {}
    /\ savedCanvases = <<>>
    /\ files = <<>>
    /\ objects = [c \in Sockets |-> <<>>]
    /\ upstream = [c \in Sockets |-> <<>>]
    /\ downstream = [c \in Sockets |-> <<>>]
    /\ history = [c \in Sockets |-> initializeHistory]
    /\ isConnected = [c \in Sockets |-> FALSE]
    /\ pendingEvents = [c \in Sockets |-> <<>>]

\* ------------------------------------------------- CollaborativeCanvasServer

\* socket ids are opaque tokens, never handed out twice: the next connection
\* gets the least id that is still fresh
NextSocket(s) == conn[s] = "fresh" /\ \A t \in DOMAIN conn : t < s => conn[t] # "fresh"

\* roomState.strokes.push(action) of the discrete handlers
pushAction(rs, hp, roomId, action) ==
    LET rs1 == getRoomState(rs, roomId)
        ref == Len(hp) + 1
    IN  [roomStates |-> [rs1 EXCEPT ![roomId].strokes = Append(@, ref)],
         heap       |-> Append(hp, action),
         ret        |-> Ref(ref)]

\* undoneStroke.id, undefined when the action carries no id
IdOf(action) == IF "id" \in DOMAIN action THEN action.id ELSE NoId

\* a handler's store call may not push the version past the cap
Capped(r) == r.roomStates[DefaultRoom].version <= MaxVersion
Room      == Len(heap) < MaxObjs

Connect_staleList(s) ==
    /\ NextSocket(s)
    /\ \E color \in Palette, name \in GuestNames :
       LET r == addUser(rooms, users, s, DefaultRoom, color, name)
       IN  IF r.ret = Thrown
           THEN /\ conn' = [conn EXCEPT ![s] = "rejected"]
                /\ emitted' = {}
                /\ last' = [op |-> "connection", socket |-> s, ret |-> Thrown]
                /\ UNCHANGED <<rooms, users, roomStates, heap>>
           ELSE LET rs1 == getRoomState(roomStates, DefaultRoom)
                    st  == rs1[DefaultRoom]
                    snapshot == [strokes       |-> Wire(heap, st.strokes),
                                 undoneStrokes |-> Wire(heap, st.undoneStrokes),
                                 version       |-> st.version]
                IN  /\ rooms' = r.rooms
                    /\ users' = r.users
                    /\ roomStates' = rs1
                    /\ conn' = [conn EXCEPT ![s] = "open"]
                    /\ emitted' =
                          {[to |-> s, event |-> "init",
                            payload |-> [roomState   |-> snapshot,
                                         users       |-> getRoomUsers(rooms, users, DefaultRoom),
                                         currentUser |-> r.ret.user]]}
                          \cup ToPeers(s, "user-joined", r.ret.user)
                    /\ last' = [op |-> "connection", socket |-> s, ret |-> r.ret]
                    /\ UNCHANGED heap

\* io.on('connection'): addUser, init to the socket, join, user-joined to peers
Connect(s) ==
    /\ NextSocket(s)
    /\ \E color \in Palette, name \in GuestNames :
       LET r == addUser(rooms, users, s, DefaultRoom, color, name)
       IN  IF r.ret = Thrown
           THEN /\ conn' = [conn EXCEPT ![s] = "rejected"]
                /\ emitted' = {}
                /\ last' = [op |-> "connection", socket |-> s, ret |-> Thrown]
                /\ UNCHANGED <<rooms, users, roomStates, heap>>
           ELSE LET rs1 == getRoomState(roomStates, DefaultRoom)
                    st  == rs1[DefaultRoom]
                    snapshot == [strokes       |-> Wire(heap, st.strokes),
                                 undoneStrokes |-> Wire(heap, st.undoneStrokes),
                                 version       |-> st.version]
                IN  /\ rooms' = r.rooms
                    /\ users' = r.users
                    /\ roomStates' = rs1
                    /\ conn' = [conn EXCEPT ![s] = "open"]
                    /\ emitted' =
                          {[to |-> s, event |-> "init",
                            payload |-> [roomState   |-> snapshot,
                                         users       |-> getRoomUsers(r.rooms, r.users, DefaultRoom),
                                         currentUser |-> r.ret.user]]}
                          \cup ToPeers(s, "user-joined", r.ret.user)
                    /\ last' = [op |-> "connection", socket |-> s, ret |-> r.ret]
                    /\ UNCHANGED heap

\* socket.on('user-name')
handleUserName(s, userName) ==
    /\ conn[s] = "open"
    /\ LET r == updateUserName(users, s, userName)
       IN  /\ users' = r.users
           /\ emitted' = IF r.ret # Null
                         THEN ToPeers(s, "user-name-update", [userId |-> s, name |-> userName])
                         ELSE {}
           /\ last' = [op |-> "user-name", socket |-> s, ret |-> r.ret]
    /\ UNCHANGED <<rooms, roomStates, heap, conn>>

handleCursorMove(s, data) ==
    /\ conn[s] = "open"
    /\ LET r == updateUserCursor(users, s, data)
       IN  /\ users' = r.users
           /\ emitted' = IF r.ret # Null
                         THEN ToPeers(s, "cursor-move",
                                      [userId |-> s, cursor |-> data,
                                       color |-> r.ret.user.color, name |-> r.ret.user.name])
                         ELSE {}
           /\ last' = [op |-> "cursor-move", socket |-> s, ret |-> r.ret]
    /\ UNCHANGED <<rooms, roomStates, heap, conn>>

handleDrawStart_unjoined(s, data) ==
    /\ conn[s] # "fresh"
    /\ Room
    /\ LET r == startStroke(roomStates, heap, DefaultRoom, s, data)
       IN  /\ Capped(r)
           /\ roomStates' = r.roomStates
           /\ heap' = r.heap
           /\ emitted' = ToPeers(s, "draw-start", r.heap[r.ret.ref])
           /\ last' = [op |-> "draw-start", socket |-> s, ret |-> r.ret]
    /\ UNCHANGED <<rooms, users, conn>>

handleDrawStart(s, data) ==
    /\ conn[s] = "open"
    /\ Room
    /\ LET r == startStroke(roomStates, heap, DefaultRoom, s, data)
       IN  /\ Capped(r)
           /\ roomStates' = r.roomStates
           /\ heap' = r.heap
           /\ emitted' = ToPeers(s, "draw-start", r.heap[r.ret.ref])
           /\ last' = [op |-> "draw-start", socket |-> s, ret |-> r.ret]
    /\ UNCHANGED <<rooms, users, conn>>

handleDrawMove(s, data) ==
    /\ conn[s] = "open"
    /\ LET r == addStrokePoint(roomStates, heap, DefaultRoom, s, data)
       IN  /\ Capped(r)
           /\ roomStates' = r.roomStates
           /\ heap' = r.heap
           /\ emitted' = IF r.ret # Null THEN ToPeers(s, "draw-move", r.ret) ELSE {}
           /\ last' = [op |-> "draw-move", socket |-> s, ret |-> r.ret]
    /\ UNCHANGED <<rooms, users, conn>>

handleDrawEnd(s, data) ==
    /\ conn[s] = "open"
    /\ LET r == endStroke(roomStates, heap, DefaultRoom, s)
       IN  /\ Capped(r)
           /\ roomStates' = r.roomStates
           /\ heap' = r.heap
           /\ emitted' = ToPeers(s, "draw-end", data)
           /\ last' = [op |-> "draw-end", socket |-> s, ret |-> r.ret]
    /\ UNCHANGED <<rooms, users, conn>>

handleDrawShape(s, shapeData) ==
    /\ conn[s] = "open"
    /\ Room
    /\ LET shape == [id |-> shapeData.id, userId |-> s, type |-> "shape"]
           r     == pushAction(roomStates, heap, DefaultRoom, shape)
       IN  /\ roomStates' = r.roomStates
           /\ heap' = r.heap
           /\ emitted' = ToPeers(s, "draw-shape", shape)
           /\ last' = [op |-> "draw-shape", socket |-> s, ret |-> r.ret]
    /\ UNCHANGED <<rooms, users, conn>>

handleFillArea(s, fillData) ==
    /\ conn[s] = "open"
    /\ Room
    /\ LET fillAction == [x |-> fillData.x, userId |-> s, type |-> "fill"]
           r          == pushAction(roomStates, heap, DefaultRoom, fillAction)
       IN  /\ roomStates' = r.roomStates
           /\ heap' = r.heap
           /\ emitted' = ToPeers(s, "fill-area", fillAction)
           /\ last' = [op |-> "fill-area", socket |-> s, ret |-> r.ret]
    /\ UNCHANGED <<rooms, users, conn>>

handleAddText(s, textData) ==
    /\ conn[s] = "open"
    /\ Room
    /\ LET textAction == [id |-> textData.id, userId |-> s, type |-> "text"]
           r          == pushAction(roomStates, heap, DefaultRoom, textAction)
       IN  /\ roomStates' = r.roomStates
           /\ heap' = r.heap
           /\ emitted' = ToPeers(s, "add-text", textAction)
           /\ last' = [op |-> "add-text", socket |-> s, ret |-> r.ret]
    /\ UNCHANGED <<rooms, users, conn>>

handleAddImage(s, imageData) ==
    /\ conn[s] = "open"
    /\ Room
    /\ LET imageAction == [id |-> imageData.id, userId |-> s, type |-> "image"]
           r           == pushAction(roomStates, heap, DefaultRoom, imageAction)
       IN  /\ roomStates' = r.roomStates
           /\ heap' = r.heap
           /\ emitted' = ToPeers(s, "add-image", imageAction)
           /\ last' = [op |-> "add-image", socket |-> s, ret |-> r.ret]
    /\ UNCHANGED <<rooms, users, conn>>

\* Date.now() does not run backwards past the clear actions already made
ClearTimes == {heap[i].id[2] : i \in {j \in 1..Len(heap) : heap[j].type = "clear"}}

handleClearCanvas(s, now) ==
    /\ conn[s] = "open"
    /\ Room
    /\ \A t \in ClearTimes : t <= now
    /\ LET r == clearCanvas(roomStates, heap, DefaultRoom, now)
       IN  /\ Capped(r)
           /\ roomStates' = r.roomStates
           /\ heap' = r.heap
           /\ emitted' = ToAll("canvas-cleared", Undefined)
           /\ last' = [op |-> "clear-canvas", socket |-> s, ret |-> r.ret]
    /\ UNCHANGED <<rooms, users, conn>>

handleUndo_ownOnly(s) ==
    /\ conn[s] = "open"
    /\ LET st   == getRoomState(roomStates, DefaultRoom)[DefaultRoom]
           mine == Len(st.strokes) > 0 /\ heap[Last(st.strokes)].userId = s
           r    == IF mine THEN undo(roomStates, heap, DefaultRoom)
                   ELSE [roomStates |-> roomStates, heap |-> heap, ret |-> Null]
       IN  /\ Capped(r)
           /\ roomStates' = r.roomStates
           /\ heap' = r.heap
           /\ emitted' = IF r.ret # Null
                         THEN ToAll("stroke-undone", IdOf(r.heap[r.ret.ref]))
                         ELSE {}
           /\ last' = [op |-> "undo-request", socket |-> s, ret |-> r.ret]
    /\ UNCHANGED <<rooms, users, conn>>

handleUndo_alwaysEmit(s) ==
    /\ conn[s] = "open"
    /\ LET r == undo(roomStates, heap, DefaultRoom)
       IN  /\ Capped(r)
           /\ roomStates' = r.roomStates
           /\ heap' = r.heap
           /\ emitted' = ToAll("stroke-undone",
                               IF r.ret # Null THEN IdOf(r.heap[r.ret.ref]) ELSE NoId)
           /\ last' = [op |-> "undo-request", socket |-> s, ret |-> r.ret]
    /\ UNCHANGED <<rooms, users, conn>>

handleUndo(s) ==
    /\ conn[s] = "open"
    /\ LET r == undo(roomStates, heap, DefaultRoom)
       IN  /\ Capped(r)
           /\ roomStates' = r.roomStates
           /\ heap' = r.heap
           /\ emitted' = IF r.ret # Null
                         THEN ToAll("stroke-undone", IdOf(r.heap[r.ret.ref]))
                         ELSE {}
           /\ last' = [op |-> "undo-request", socket |-> s, ret |-> r.ret]
    /\ UNCHANGED <<rooms, users, conn>>

handleRedo_toAll(s) ==
    /\ conn[s] = "open"
    /\ LET r == redo(roomStates, heap, DefaultRoom)
       IN  /\ Capped(r)
           /\ roomStates' = r.roomStates
           /\ heap' = r.heap
           /\ emitted' = IF r.ret # Null
                         THEN ToAll("stroke-redone", r.heap[r.ret.ref])
                         ELSE {}
           /\ last' = [op |-> "redo-request", socket |-> s, ret |-> r.ret]
    /\ UNCHANGED <<rooms, users, conn>>

handleRedo(s) ==
    /\ conn[s] = "open"
    /\ LET r == redo(roomStates, heap, DefaultRoom)
       IN  /\ Capped(r)
           /\ roomStates' = r.roomStates
           /\ heap' = r.heap
           /\ emitted' = IF r.ret # Null
                         THEN ToPeers(s, "stroke-redone", r.heap[r.ret.ref])
                         ELSE {}
           /\ last' = [op |-> "redo-request", socket |-> s, ret |-> r.ret]
    /\ UNCHANGED <<rooms, users, conn>>

handleDisconnect_toAll(s) ==
    /\ conn[s] = "open"
    /\ LET r == removeUser(rooms, users, s)
       IN  /\ rooms' = r.rooms
           /\ users' = r.users
    /\ conn' = [conn EXCEPT ![s] = "closed"]
    /\ emitted' = ToAll("user-left", s)
    /\ last' = [op |-> "disconnect", socket |-> s, ret |-> Undefined]
    /\ UNCHANGED <<roomStates, heap>>

handleDisconnect(s) ==
    /\ conn[s] = "open"
    /\ LET r == removeUser(rooms, users, s)
       IN  /\ rooms' = r.rooms
           /\ users' = r.users
    /\ conn' = [conn EXCEPT ![s] = "closed"]
    /\ emitted' = ToPeers(s, "user-left", s)
    /\ last' = [op |-> "disconnect", socket |-> s, ret |-> Undefined]
    /\ UNCHANGED <<roomStates, heap>>

\* a socket handler touches neither the saved canvases nor any client
ServerOnly == UNCHANGED <<savedCanvases, files, objects, upstream, downstream, history,
                   isConnected, pendingEvents>>

Next ==
    \/ \E s \in Sockets : Connect(s) /\ ServerOnly
    \/ \E s \in Sockets, d \in StartData : handleDrawStart(s, d) /\ ServerOnly
    \/ \E s \in Sockets, d \in MoveData : handleDrawMove(s, d) /\ ServerOnly
    \/ \E s \in Sockets, d \in EndData : handleDrawEnd(s, d) /\ ServerOnly
    \/ \E s \in Sockets, d \in ObjectData : handleDrawShape(s, d) /\ ServerOnly
    \/ \E s \in Sockets, d \in FillData : handleFillArea(s, d) /\ ServerOnly
    \/ \E s \in Sockets, d \in ObjectData : handleAddText(s, d) /\ ServerOnly
    \/ \E s \in Sockets, d \in ObjectData : handleAddImage(s, d) /\ ServerOnly
    \/ \E s \in Sockets, now \in Clock : handleClearCanvas(s, now) /\ ServerOnly
    \/ \E s \in Sockets : handleUndo(s) /\ ServerOnly
    \/ \E s \in Sockets : handleRedo(s) /\ ServerOnly
    \/ \E s \in Sockets : handleDisconnect(s) /\ ServerOnly

Spec == Init /\ [][Next]_vars

\* ------------------------------------------------ the room close to capacity

\* the connections that joined earlier and stay idle: they fill the default
\* room; at most one of them, Leaver, ever disconnects
IdleIds == {s + Cardinality(Sockets) : s \in 1..maxUsers}
Leaver  == 1 + Cardinality(Sockets)

\* the state after maxUsers connections were accepted, in the order of their ids
InitCrowded ==
    /\ rooms = (DefaultRoom :> [id       |-> DefaultRoom,
                                users    |-> [i \in 1..maxUsers |-> i + Cardinality(Sockets)],
                                maxUsers |-> maxUsers])
    /\ users = [s \in IdleIds |->
                   [id |-> s, color |-> CHOOSE c \in Palette : TRUE,
                    cursor |-> [x |-> 0, y |-> 0], roomId |-> DefaultRoom,
                    name |-> CHOOSE g \in GuestNames : TRUE, isGuest |-> TRUE]]
    /\ roomStates = (DefaultRoom :>
                        [newRoomState EXCEPT !.currentStrokes =
                                                [u \in Sockets \cup IdleIds |-> NoRef]])
    /\ heap = <<>>
    /\ conn = [s \in Sockets \cup IdleIds |-> IF s \in Sockets THEN "fresh" ELSE "open"]
    /\ last = [op |-> "init", socket |-> NoRef, ret |-> Undefined]
    /\ emitted = {}
    /\ savedCanvases = <<>>
    /\ files = <<>>
    /\ objects = [c \in Sockets |-> <<>>]
    /\ upstream = [c \in Sockets |-> <<>>]
    /\ downstream = [c \in Sockets |-> <<>>]
    /\ history = [c \in Sockets |-> initializeHistory]
    /\ isConnected = [c \in Sockets |-> FALSE]
    /\ pendingEvents = [c \in Sockets |-> <<>>]

\* the store calls stay one object and one version step below the caps
Sparse == Len(heap') < MaxObjs /\ RS'.version < MaxVersion

NextCrowded ==
    \/ \E s \in Sockets : Connect(s) /\ ServerOnly
    \/ \E s \in Sockets, n \in UserNames : handleUserName(s, n) /\ ServerOnly
    \/ \E s \in Sockets, d \in CursorData : handleCursorMove(s, d) /\ ServerOnly
    \/ \E s \in Sockets, d \in StartData : handleDrawStart(s, d) /\ Sparse /\ ServerOnly
    \/ \E s \in Sockets, d \in MoveData : handleDrawMove(s, d) /\ Sparse /\ ServerOnly
    \/ \E s \in Sockets, d \in EndData : handleDrawEnd(s, d) /\ Sparse /\ ServerOnly
    \/ \E s \in Sockets, d \in ObjectData : handleDrawShape(s, d) /\ Sparse /\ ServerOnly
    \/ \E s \in Sockets, d \in FillData : handleFillArea(s, d) /\ Sparse /\ ServerOnly
    \/ \E s \in Sockets, d \in ObjectData : handleAddText(s, d) /\ Sparse /\ ServerOnly
    \/ \E s \in Sockets, d \in ObjectData : handleAddImage(s, d) /\ Sparse /\ ServerOnly
    \/ \E s \in Sockets, now \in Clock : handleClearCanvas(s, now) /\ Sparse /\ ServerOnly
    \/ \E s \in Sockets : handleUndo(s) /\ Sparse /\ ServerOnly
    \/ \E s \in Sockets : handleRedo(s) /\ Sparse /\ ServerOnly
    \/ \E s \in Sockets \cup {Leaver} : handleDisconnect(s) /\ ServerOnly

CrowdedSpec == InitCrowded /\ [][NextCrowded]_vars

\* ---------------------------------------------------------- saved canvases

\* roomState as a live object reference, and as JSON.stringify writes it: the
\* action objects by value, the currentStrokes Map as an empty object
LiveRoomState(roomId) == [kind |-> "object", roomId |-> roomId]
EmptyObject == [kind |-> "emptyObject"]
Json(hp, st) ==
    [strokes        |-> Wire(hp, st.strokes),
     undoneStrokes  |-> Wire(hp, st.undoneStrokes),
     currentStrokes |-> EmptyObject,
     canvasState    |-> st.canvasState,
     version        |-> st.version]

\* uuidv4(): an id no saved canvas has yet
CanvasIds == 1..MaxSaves

\* RoomManager.saveCanvas: saveData keeps canvasData, and with it the live
\* roomState object, in memory; saveCanvasToFile writes its JSON text
saveCanvas(sc, fl, rs, hp, canvasId, canvasData) ==
    LET saveData == [id |-> canvasId, data |-> canvasData]
        onDisk   == [id |-> canvasId,
                     data |-> [roomState |-> Json(hp, rs[canvasData.roomState.roomId])]]
    IN  [savedCanvases |-> (canvasId :> saveData) @@ sc,
         files         |-> (canvasId :> onDisk) @@ fl,
         ret           |-> saveData]

\* RoomManager.loadCanvas: memory first, then the file
loadCanvas(sc, fl, canvasId) ==
    IF canvasId \in DOMAIN sc THEN sc[canvasId]
    ELSE IF canvasId \in DOMAIN fl THEN fl[canvasId]
    ELSE Null

\* DrawingManager.loadRoomState
loadRoomState(rs, roomId, stateData) ==
    [k \in DOMAIN rs \cup {roomId} |-> IF k = roomId THEN stateData ELSE rs[k]]

\* res.json(canvasData): a live roomState object is serialised as it is now
Body(rs, hp, canvasData) ==
    IF canvasData.data.roomState = LiveRoomState(DefaultRoom)
    THEN [id |-> canvasData.id, data |-> [roomState |-> Json(hp, rs[DefaultRoom])]]
    ELSE canvasData

NotFound == [kind |-> "response", status |-> 404]

\* POST /api/canvases/save
postSave(canvasId) ==
    /\ canvasId \notin DOMAIN files
    /\ \A k \in CanvasIds : k < canvasId => k \in DOMAIN files
    /\ LET rs1 == getRoomState(roomStates, DefaultRoom)
           r   == saveCanvas(savedCanvases, files, rs1, heap, canvasId,
                             [roomState |-> LiveRoomState(DefaultRoom)])
       IN  /\ roomStates' = rs1
           /\ savedCanvases' = r.savedCanvases
           /\ files' = r.files
           /\ last' = [op |-> "save", socket |-> NoRef,
                       ret |-> [kind |-> "response", status |-> 200,
                                body |-> Body(rs1, heap, r.ret)]]
    /\ emitted' = {}
    /\ UNCHANGED <<rooms, users, heap, conn, objects, upstream, downstream, history,
                   isConnected, pendingEvents>>

\* GET /api/canvases/:id
getCanvas(canvasId) ==
    /\ LET canvasData == loadCanvas(savedCanvases, files, canvasId)
       IN  last' = [op |-> "get-canvas", socket |-> NoRef,
                   ret |-> IF canvasData # Null
                           THEN [kind |-> "response", status |-> 200,
                                 body |-> Body(roomStates, heap, canvasData)]
                           ELSE NotFound]
    /\ emitted' = {}
    /\ UNCHANGED <<rooms, users, roomStates, heap, conn, savedCanvases, files,
                   objects, upstream, downstream, history,
                   isConnected, pendingEvents>>

postLoad_fileCopy(canvasId) ==
    /\ IF canvasId \in DOMAIN files
       THEN LET st == files[canvasId].data.roomState
                n  == Len(heap)
            IN  /\ heap' = heap \o st.strokes \o st.undoneStrokes
                /\ roomStates' = loadRoomState(roomStates, DefaultRoom,
                       [st EXCEPT !.strokes = [i \in 1..Len(st.strokes) |-> n + i],
                                  !.undoneStrokes = [i \in 1..Len(st.undoneStrokes) |->
                                                        n + Len(st.strokes) + i],
                                  !.currentStrokes = [u \in DOMAIN RS.currentStrokes |-> NoRef]])
                /\ last' = [op |-> "load", socket |-> NoRef,
                            ret |-> [kind |-> "response", status |-> 200, id |-> canvasId]]
       ELSE /\ roomStates' = roomStates
            /\ heap' = heap
            /\ last' = [op |-> "load", socket |-> NoRef,
                        ret |-> [kind |-> "response", status |-> 404, id |-> canvasId]]
    /\ emitted' = {}
    /\ UNCHANGED <<rooms, users, conn, savedCanvases, files,
                   objects, upstream, downstream, history,
                   isConnected, pendingEvents>>

\* POST /api/canvases/:id/load: the record loadCanvas returns is saveData, whose
\* roomState sits under data, so the test on canvasData.roomState fails
postLoad(canvasId) ==
    /\ LET canvasData == loadCanvas(savedCanvases, files, canvasId)
       IN  IF canvasData # Null /\ "roomState" \in DOMAIN canvasData
           THEN /\ roomStates' = loadRoomState(roomStates, DefaultRoom, canvasData.roomState)
                /\ last' = [op |-> "load", socket |-> NoRef,
                            ret |-> [kind |-> "response", status |-> 200, id |-> canvasId]]
           ELSE /\ roomStates' = roomStates
                /\ last' = [op |-> "load", socket |-> NoRef,
                            ret |-> [kind |-> "response", status |-> 404, id |-> canvasId]]
    /\ emitted' = {}
    /\ UNCHANGED <<rooms, users, heap, conn, savedCanvases, files,
                   objects, upstream, downstream, history,
                   isConnected, pendingEvents>>

NextSaves ==
    \/ \E s \in Sockets : Connect(s) /\ ServerOnly
    \/ \E s \in Sockets, d \in StartData : handleDrawStart(s, d) /\ Sparse /\ ServerOnly
    \/ \E s \in Sockets, d \in MoveData : handleDrawMove(s, d) /\ Sparse /\ ServerOnly
    \/ \E s \in Sockets, d \in ObjectData : handleDrawShape(s, d) /\ Sparse /\ ServerOnly
    \/ \E s \in Sockets, now \in Clock : handleClearCanvas(s, now) /\ Sparse /\ ServerOnly
    \/ \E s \in Sockets : handleUndo(s) /\ Sparse /\ ServerOnly
    \/ \E s \in Sockets : handleRedo(s) /\ Sparse /\ ServerOnly
    \/ \E k \in CanvasIds : postSave(k)
    \/ \E k \in CanvasIds : getCanvas(k)
    \/ \E k \in CanvasIds : postLoad(k)

SavesSpec == Init /\ [][NextSaves]_vars

\* ------------------------------------------------------ unchecked payloads

\* the payload {}: every field a handler reads of it is undefined. The listeners
\* hand whatever arrives to the handlers; nothing inspects it first.
BadStartData  == {[x |-> Undefined, strokeId |-> NoId]}
BadMoveData   == {[x |-> Undefined, strokeId |-> NoId]}
BadObjectData == {[id |-> NoId]}

NextRaw ==
    \/ \E s \in Sockets : Connect(s) /\ ServerOnly
    \/ \E s \in Sockets, d \in StartData \cup BadStartData : handleDrawStart(s, d) /\ ServerOnly
    \/ \E s \in Sockets, d \in MoveData \cup BadMoveData : handleDrawMove(s, d) /\ ServerOnly
    \/ \E s \in Sockets, d \in EndData : handleDrawEnd(s, d) /\ ServerOnly
    \/ \E s \in Sockets, d \in ObjectData \cup BadObjectData : handleDrawShape(s, d) /\ ServerOnly
    \/ \E s \in Sockets : handleDisconnect(s) /\ ServerOnly

RawSpec == Init /\ [][NextRaw]_vars

\* ------------------------------------------------- clients and the wire

\* the id finalizeShapeDrawing gives a client's k-th shape:
\* `shape-${Date.now()}-${random}`
ShapeId(c, k) == <<"shape", c * (MaxObjs + 1) + k>>

\* the shapes a client made itself carry no userId; relayed ones do
OwnShapes(c) == {i \in 1..Len(objects[c]) : "userId" \notin DOMAIN objects[c][i]}

\* socket.emit / socket.to(room).emit put one event on the wire per recipient
Sent(queues, msgs) ==
    [c \in DOMAIN queues |->
        IF \E m \in msgs : m.to = c
        THEN LET m == CHOOSE k \in msgs : k.to = c
             IN  Append(queues[c], [event |-> m.event, payload |-> m.payload])
        ELSE queues[c]]

\* DrawingCanvas.handleInitialState: the shapes of the snapshot go on objects
handleInitialState(objs, roomState) ==
    objs \o SelectSeq(roomState.strokes, LAMBDA a : a.type = "shape")

\* DrawingCanvas.handleRemoteDrawShape
handleRemoteDrawShape(objs, shapeData) == Append(objs, shapeData)

\* a connection is accepted; what the server emitted goes on the wire
Join(c) ==
    /\ Connect(c)
    /\ downstream' = Sent(downstream, emitted')
    /\ UNCHANGED <<savedCanvases, files, objects, upstream, history,
                   isConnected, pendingEvents>>

\* DrawingCanvas.finalizeShapeDrawing: the shape is pushed on the client's own
\* objects first and then emitted
finalizeShapeDrawing(c) ==
    /\ conn[c] = "open"
    /\ Cardinality(UNION {{<<k, i>> : i \in OwnShapes(k)} : k \in DOMAIN objects}) < MaxObjs
    /\ LET shapeObj == [id |-> ShapeId(c, Cardinality(OwnShapes(c)) + 1), type |-> "shape"]
       IN  /\ objects' = [objects EXCEPT ![c] = Append(@, shapeObj)]
           /\ history' = [history EXCEPT ![c] = addToHistory(@)]
           /\ upstream' = [upstream EXCEPT ![c] =
                              Append(@, [event |-> "draw-shape", data |-> shapeObj])]
    /\ UNCHANGED <<rooms, users, roomStates, heap, conn, last, emitted,
                   savedCanvases, files, downstream, isConnected, pendingEvents>>

\* DrawingCanvas.undo / redo with SocketManager.emitUndo / emitRedo: step the
\* history index and, when connected, emit the request. They yield the
\* client's history and the events it emitted.
canvasUndo(h, connected) ==
    IF h.index > 0
    THEN [history |-> [h EXCEPT !.index = @ - 1],
          out     |-> IF connected THEN <<[event |-> "undo-request", data |-> Undefined]>>
                      ELSE <<>>]
    ELSE [history |-> h, out |-> <<>>]

canvasRedo(h, connected) ==
    IF h.index < h.length - 1
    THEN [history |-> [h EXCEPT !.index = @ + 1],
          out     |-> IF connected THEN <<[event |-> "redo-request", data |-> Undefined]>>
                      ELSE <<>>]
    ELSE [history |-> h, out |-> <<>>]

InFlight(queues) == \E c \in DOMAIN queues : queues[c] # <<>>

\* the user presses undo or redo; a user acts when nothing is on the wire
pressUndo(c) ==
    /\ conn[c] = "open"
    /\ ~InFlight(upstream) /\ ~InFlight(downstream)
    /\ history[c].index > 0
    /\ LET r == canvasUndo(history[c], conn[c] = "open")
       IN  /\ history' = [history EXCEPT ![c] = r.history]
           /\ upstream' = [upstream EXCEPT ![c] = @ \o r.out]
    /\ UNCHANGED <<rooms, users, roomStates, heap, conn, last, emitted,
                   savedCanvases, files, objects, downstream,
                   isConnected, pendingEvents>>

pressRedo(c) ==
    /\ conn[c] = "open"
    /\ ~InFlight(upstream) /\ ~InFlight(downstream)
    /\ history[c].index < history[c].length - 1
    /\ LET r == canvasRedo(history[c], conn[c] = "open")
       IN  /\ history' = [history EXCEPT ![c] = r.history]
           /\ upstream' = [upstream EXCEPT ![c] = @ \o r.out]
    /\ UNCHANGED <<rooms, users, roomStates, heap, conn, last, emitted,
                   savedCanvases, files, objects, downstream,
                   isConnected, pendingEvents>>

\* the server takes a client's next event off the wire: socket.on('draw-shape'),
\* socket.on('undo-request'), socket.on('redo-request')
Dispatch(c) ==
    /\ upstream[c] # <<>>
    /\ LET m == Head(upstream[c])
       IN  CASE m.event = "draw-shape"   -> handleDrawShape(c, m.data)
             [] m.event = "undo-request" -> handleUndo(c)
             [] m.event = "redo-request" -> handleRedo(c)
    /\ upstream' = [upstream EXCEPT ![c] = Tail(@)]
    /\ downstream' = Sent(downstream, emitted')
    /\ UNCHANGED <<savedCanvases, files, objects, history, isConnected, pendingEvents>>

\* the client takes its next event off the wire: socket.on('init'),
\* socket.on('draw-shape'), socket.on('stroke-undone'), socket.on('stroke-redone');
\* the other events touch neither objects nor the history
Receive(c) ==
    /\ downstream[c] # <<>>
    /\ LET m == Head(downstream[c])
           r == IF m.event = "stroke-undone" THEN canvasUndo(history[c], conn[c] = "open")
                ELSE IF m.event = "stroke-redone" THEN canvasRedo(history[c], conn[c] = "open")
                ELSE [history |-> history[c], out |-> <<>>]
       IN  /\ objects' = [objects EXCEPT ![c] =
                             IF m.event = "init"
                             THEN handleInitialState(@, m.payload.roomState)
                             ELSE IF m.event = "draw-shape" /\ m.payload.userId # c
                             THEN handleRemoteDrawShape(@, m.payload)
                             ELSE @]
           /\ history' = [history EXCEPT ![c] = r.history]
           /\ upstream' = [upstream EXCEPT ![c] = @ \o r.out]
    /\ downstream' = [downstream EXCEPT ![c] = Tail(@)]
    /\ UNCHANGED <<rooms, users, roomStates, heap, conn, last, emitted,
                   savedCanvases, files, isConnected, pendingEvents>>

NextWire ==
    \/ \E c \in Sockets : Join(c)
    \/ \E c \in Sockets : finalizeShapeDrawing(c)
    \/ \E c \in Sockets : pressUndo(c)
    \/ \E c \in Sockets : pressRedo(c)
    \/ \E c \in Sockets : Dispatch(c)
    \/ \E c \in Sockets : Receive(c)

WireSpec == Init /\ [][NextWire]_vars

\* ------------------------------------------- the client's pending events

\* The client side alone: the socket's connect and disconnect events and the
\* user's drawing are the inputs; upstream[c] lists what the client's socket
\* was given to send.
IntentTypes ==
    {"draw-start", "draw-move", "draw-end", "draw-shape", "fill-area", "add-text", "add-image"}

Intents(seq) == SelectSeq(seq, LAMBDA e : e.type \in IntentTypes)

\* Date.now(): one tick per drawing intent issued so far
Issued ==
    LET RECURSIVE Sum(_)
        Sum(S) == IF S = {} THEN 0
                  ELSE LET c == CHOOSE x \in S : TRUE
                       IN  Len(Intents(upstream[c])) + Len(pendingEvents[c]) + Sum(S \ {c})
    IN  Sum(Sockets)

Connects(c) == Len(SelectSeq(upstream[c], LAMBDA e : e.type = "user-name"))

\* SocketManager.emitDrawStart .. emitAddImage: send when connected, queue
\* otherwise
emitIntent(c, type) ==
    /\ Issued < MaxObjs
    /\ LET eventData == [timestamp |-> Issued + 1]
       IN  IF isConnected[c]
           THEN /\ upstream' = [upstream EXCEPT ![c] =
                                   Append(@, [type |-> type, data |-> eventData])]
                /\ pendingEvents' = pendingEvents
           ELSE /\ pendingEvents' = [pendingEvents EXCEPT ![c] =
                                        Append(@, [type |-> type, data |-> eventData])]
                /\ upstream' = upstream
    /\ last' = [op |-> "emit", socket |-> c, ret |-> Undefined]
    /\ UNCHANGED <<rooms, users, roomStates, heap, conn, emitted, savedCanvases, files,
                   objects, downstream, history, isConnected>>

processPendingEvents_dropFailed(pending, failAt) ==
    IF failAt = 0
    THEN [sent |-> pending, pendingEvents |-> <<>>]
    ELSE [sent          |-> SubSeq(pending, 1, failAt - 1),
          pendingEvents |-> SubSeq(pending, failAt + 1, Len(pending))]

\* SocketManager.processPendingEvents: shift and emit until the queue is empty;
\* when socket.emit throws (at the failAt-th event, 0 for never) the event goes
\* back to the head of the queue and the loop stops
processPendingEvents(pending, failAt) ==
    IF failAt = 0
    THEN [sent |-> pending, pendingEvents |-> <<>>]
    ELSE [sent          |-> SubSeq(pending, 1, failAt - 1),
          pendingEvents |-> SubSeq(pending, failAt, Len(pending))]

\* socket.on('connect')
onConnect(c) ==
    /\ ~isConnected[c]
    /\ Connects(c) < MaxConnects
    /\ \E failAt \in 0..Len(pendingEvents[c]) :
          LET r == processPendingEvents(pendingEvents[c], failAt)
          IN  /\ isConnected' = [isConnected EXCEPT ![c] = TRUE]
              /\ pendingEvents' = [pendingEvents EXCEPT ![c] = r.pendingEvents]
              /\ upstream' = [upstream EXCEPT ![c] =
                                 @ \o r.sent \o <<[type |-> "user-name", data |-> Undefined]>>]
              /\ last' = [op |-> "connect", socket |-> c,
                          ret |-> [kind |-> "failed", at |-> failAt]]
    /\ UNCHANGED <<rooms, users, roomStates, heap, conn, emitted, savedCanvases, files,
                   objects, downstream, history>>

\* socket.on('disconnect')
onDisconnect(c) ==
    /\ isConnected[c]
    /\ isConnected' = [isConnected EXCEPT ![c] = FALSE]
    /\ last' = [op |-> "client-disconnect", socket |-> c, ret |-> Undefined]
    /\ UNCHANGED <<rooms, users, roomStates, heap, conn, emitted, savedCanvases, files,
                   objects, upstream, downstream, history, pendingEvents>>

\* one browser: a SocketManager shares nothing with another client's
Browser == CHOOSE c \in Sockets : \A d \in Sockets : c <= d

NextPending ==
    \/ \E type \in IntentTypes : emitIntent(Browser, type)
    \/ onConnect(Browser)
    \/ onDisconnect(Browser)

PendingSpec == Init /\ [][NextPending]_vars

\* ------------------------------------------------------------------ claims

DiscreteOps == {"draw-shape", "fill-area", "add-text", "add-image"}
Refs(seq)   == {seq[i] : i \in 1..Len(seq)}

\* C1: startStroke, addStrokePoint with an in-progress stroke of the author,
\* endStroke, clearCanvas, undo on a non-empty log and redo on a non-empty redo
\* stack each raise the room's version by exactly 1.
C1_VersionPlusOne ==
    [][ ( \/ last'.op \in {"draw-start", "draw-end", "clear-canvas"}
          \/ last'.op = "draw-move" /\ RS.currentStrokes[last'.socket] # NoRef
          \/ last'.op = "undo-request" /\ Len(RS.strokes) > 0
          \/ last'.op = "redo-request" /\ Len(RS.undoneStrokes) > 0 )
        => RS'.version = RS.version + 1 ]_vars

C1_Witness ==
    /\ last.op = "redo-request"
    /\ last.ret # Null
    /\ RS.version >= 4

\* C2: a discrete action (draw-shape, add-text, add-image, fill-area) is appended
\* to the action log and raises the room's version by exactly 1.
C2_DiscreteAppendsAndBumps ==
    [][ last'.op \in DiscreteOps
        => /\ RS'.strokes = Append(RS.strokes, Len(heap) + 1)
           /\ RS'.version = RS.version + 1 ]_vars

\* C3: after a discrete action is appended the redo stack is empty, so a redo
\* issued right after it returns none and restores nothing.
C3_DiscreteClearsRedo ==
    last.op \in DiscreteOps
        => /\ RS.undoneStrokes = <<>>
           /\ redo(roomStates, heap, DefaultRoom).ret = Null

\* C4: after startStroke or clearCanvas the redo stack is empty, and a redo that
\* follows returns none and changes neither the action log nor the version.
C4_StartAndClearEmptyRedo ==
    [][ /\ last'.op \in {"draw-start", "clear-canvas"} => RS'.undoneStrokes = <<>>
        /\ (last.op \in {"draw-start", "clear-canvas"} /\ last'.op = "redo-request")
              => /\ last'.ret = Null
                 /\ RS' = RS
                 /\ heap' = heap ]_vars

\* a redo that found nothing although an action was undone earlier and then
\* dropped from the redo stack by a stroke start or a clear
C4_Witness ==
    /\ last.op = "redo-request"
    /\ last.ret = Null
    /\ Len(RS.strokes) > 0
    /\ heap[Last(RS.strokes)].type \in {"stroke", "clear"}
    /\ \E r \in 1..Len(heap) :
          /\ r \notin Refs(RS.strokes)
          /\ r < Last(RS.strokes)

\* C5: the in-progress map holds at most one stroke per author, each under its
\* author's key; a second start by an author with an unterminated stroke leaves
\* only the new stroke in the map, and the first stroke keeps its place in the
\* action log and all its points.
InProgressOf(u) ==
    {r \in 1..Len(heap) : \E k \in Sockets : RS.currentStrokes[k] = r /\ heap[r].userId = u}

C6_UndoRedoAuthorAgnostic ==
    [][ /\ (last'.op = "undo-request" /\ Len(RS.strokes) > 0)
              => /\ RS'.strokes = Front(RS.strokes)
                 /\ RS'.undoneStrokes = Append(RS.undoneStrokes, Last(RS.strokes))
                 /\ last'.ret = Ref(Last(RS.strokes))
                 /\ heap' = heap
        /\ (last'.op = "redo-request" /\ Len(RS.undoneStrokes) > 0)
              => /\ RS'.undoneStrokes = Front(RS.undoneStrokes)
                 /\ RS'.strokes = Append(RS.strokes, Last(RS.undoneStrokes))
                 /\ last'.ret = Ref(Last(RS.undoneStrokes))
                 /\ heap' = heap ]_vars

\* A's undo has removed B's stroke s2 while A's own stroke s1 stays in the log
C6_Witness ==
    /\ last.op = "undo-request"
    /\ last.ret # Null
    /\ heap[last.ret.ref].type = "stroke"
    /\ heap[last.ret.ref].userId \in Sockets \ {last.socket}
    /\ RS.undoneStrokes = <<last.ret.ref>>
    /\ Len(RS.strokes) = 1
    /\ heap[RS.strokes[1]].type = "stroke"
    /\ heap[RS.strokes[1]].userId = last.socket

\* C7: for every n up to the length of the action log, n undos followed by n
\* redos leave the action log with the same actions, in the same order and with
\* the same field values, and leave the redo stack as it was.
RECURSIVE undoN(_, _, _, _)
undoN(rs, hp, roomId, n) ==
    IF n = 0 THEN [roomStates |-> rs, heap |-> hp]
    ELSE LET r == undo(rs, hp, roomId)
         IN  undoN(r.roomStates, r.heap, roomId, n - 1)

RECURSIVE redoN(_, _, _, _)
redoN(rs, hp, roomId, n) ==
    IF n = 0 THEN [roomStates |-> rs, heap |-> hp]
    ELSE LET r == redo(rs, hp, roomId)
         IN  redoN(r.roomStates, r.heap, roomId, n - 1)

C7_UndoRedoRoundTrip ==
    \A n \in 0..Len(RS.strokes) :
        LET a == undoN(roomStates, heap, DefaultRoom, n)
            b == redoN(a.roomStates, a.heap, DefaultRoom, n)
            st == b.roomStates[DefaultRoom]
        IN  /\ Len(a.roomStates[DefaultRoom].strokes) = Len(RS.strokes) - n
            /\ st.strokes = RS.strokes
            /\ Wire(b.heap, st.strokes) = Wire(heap, RS.strokes)
            /\ st.undoneStrokes = RS.undoneStrokes
            /\ Wire(b.heap, st.undoneStrokes) = Wire(heap, RS.undoneStrokes)

\* an undone action was redone under two actions of different authors and
\* kinds, so that a change of order or of content in the log would show
C7_Witness ==
    /\ last.op = "redo-request"
    /\ last.ret # Null
    /\ Len(RS.strokes) = 2
    /\ RS.undoneStrokes = <<>>
    /\ heap[RS.strokes[1]].userId # heap[RS.strokes[2]].userId
    /\ heap[RS.strokes[1]].type # heap[RS.strokes[2]].type

\* C8: undo on an empty action log and redo on an empty redo stack return none,
\* leave the action log, redo stack, in-progress map and version unchanged, and
\* send no message to any connection.
C8_EmptyUndoRedoSilent ==
    [][ ( \/ last'.op = "undo-request" /\ Len(RS.strokes) = 0
          \/ last'.op = "redo-request" /\ Len(RS.undoneStrokes) = 0 )
        => /\ last'.ret = Null
           /\ roomStates' = roomStates
           /\ heap' = heap
           /\ emitted' = {} ]_vars

C8_Witness ==
    /\ last.op = "undo-request"
    /\ last.ret = Null
    /\ InRoom = Sockets
    /\ RS.undoneStrokes # <<>>

\* C9: a draw-move from an author with no in-progress stroke (never started, or
\* already ended) returns none from the store, changes nothing in the room state
\* including version, and is relayed to no connection.
C9_MoveWithoutStrokeDropped ==
    [][ (last'.op = "draw-move" /\ RS.currentStrokes[last'.socket] = NoRef)
        => /\ last'.ret = Null
           /\ roomStates' = roomStates
           /\ heap' = heap
           /\ emitted' = {} ]_vars

\* the author's stroke was ended, a later point of theirs was dropped while a
\* peer was connected
C9_Witness ==
    /\ last.op = "draw-move"
    /\ last.ret = Null
    /\ InRoom = Sockets
    /\ \E i \in 1..Len(RS.strokes) :
          /\ heap[RS.strokes[i]].type = "stroke"
          /\ heap[RS.strokes[i]].userId = last.socket

\* C10: endStroke removes the author's entry from the in-progress map, leaves
\* the action log and the redo stack unchanged and raises version by 1, also
\* when the author has no in-progress entry.
C10_EndStrokeFrame ==
    [][ last'.op = "draw-end"
        => /\ RS'.currentStrokes = [RS.currentStrokes EXCEPT ![last'.socket] = NoRef]
           /\ RS'.strokes = RS.strokes
           /\ RS'.undoneStrokes = RS.undoneStrokes
           /\ RS'.version = RS.version + 1
           /\ heap' = heap ]_vars

\* an end from an author who never started a stroke
C10_Witness ==
    /\ last.op = "draw-end"
    /\ \A r \in 1..Len(heap) : heap[r].userId # last.socket
    /\ RS.version = 2
    /\ Len(RS.strokes) > 0

\* C11: clearCanvas appends exactly one clear action authored by 'system' to
\* the end of the log and removes no earlier action; an undo immediately after
\* a clear pops that clear action and leaves the log as it was before the clear.
C11_ClearAppendsUndoRestores ==
    [][ /\ last'.op = "clear-canvas"
           => /\ Len(heap') = Len(heap) + 1
              /\ \A r \in 1..Len(heap) : heap'[r] = heap[r]
              /\ heap'[Len(heap')].type = "clear"
              /\ heap'[Len(heap')].userId = SystemId
              /\ RS'.strokes = Append(RS.strokes, Len(heap'))
              /\ LET u == undo(roomStates', heap', DefaultRoom)
                 IN  /\ u.ret = Ref(Len(heap'))
                     /\ u.roomStates[DefaultRoom].strokes = RS.strokes
                     /\ u.heap = heap'
        /\ (last.op = "clear-canvas" /\ last'.op = "undo-request")
           => /\ last'.ret = Ref(Last(RS.strokes))
              /\ heap'[last'.ret.ref].type = "clear"
              /\ RS'.strokes = Front(RS.strokes)
              /\ heap' = heap ]_vars

\* a log with an earlier action was cleared and the clear was undone at once
C11_Witness ==
    /\ last.op = "undo-request"
    /\ last.ret # Null
    /\ heap[last.ret.ref].type = "clear"
    /\ RS.undoneStrokes = <<last.ret.ref>>
    /\ Len(RS.strokes) = 1
    /\ heap[RS.strokes[1]].type # "clear"

\* a room id the registry never created
UnknownRoom == "lobby"

\* C12: addUser fails when the room does not exist or already has maxUsers
\* members; a failed join changes neither the user table nor the room's member
\* set; hence in every reachable state a room has at most maxUsers members.
C12_JoinRespectsCapacity ==
    /\ [](\A r \in DOMAIN rooms : Len(rooms[r].users) <= rooms[r].maxUsers)
    /\ [](\A s \in Sockets, c \in Palette, n \in GuestNames :
             addUser(rooms, users, s, UnknownRoom, c, n)
                = [rooms |-> rooms, users |-> users, ret |-> Thrown])
    /\ [][ last'.op = "connection"
           => /\ Len(rooms[DefaultRoom].users) >= rooms[DefaultRoom].maxUsers
                 => last'.ret = Thrown
              /\ last'.ret = Thrown => (rooms' = rooms /\ users' = users) ]_vars

\* a connection was turned away from the full room
C12_Witness ==
    /\ last.op = "connection"
    /\ last.ret = Thrown
    /\ Len(rooms[DefaultRoom].users) = maxUsers
    /\ last.socket \notin DOMAIN users
    /\ \A i \in 1..Len(rooms[DefaultRoom].users) : rooms[DefaultRoom].users[i] # last.socket

Members(r) == {rooms[r].users[i] : i \in 1..Len(rooms[r].users)}

\* C13: removeUser removes the connection from both the user table and its
\* room's member set, so a join that was rejected for a full room succeeds once
\* any member has left; removing a connection that is not registered, a second
\* removal of the same connection included, changes nothing.
C13_LeaveFreesAPlace ==
    /\ [][ last'.op = "disconnect"
           => /\ DOMAIN users' = DOMAIN users \ {last'.socket}
              /\ \A k \in DOMAIN users' : users'[k] = users[k]
              /\ rooms'[DefaultRoom].users =
                    SelectSeq(rooms[DefaultRoom].users, LAMBDA m : m # last'.socket)
              /\ Len(rooms'[DefaultRoom].users) = Len(rooms[DefaultRoom].users) - 1
              /\ \A s \in Sockets, c \in Palette, n \in GuestNames :
                    LET before == addUser(rooms, users, s, DefaultRoom, c, n)
                        after  == addUser(rooms', users', s, DefaultRoom, c, n)
                    IN  /\ after.ret # Thrown
                        /\ s \in DOMAIN after.users
                        /\ Len(rooms[DefaultRoom].users) = maxUsers => before.ret = Thrown
              /\ removeUser(rooms', users', last'.socket) = [rooms |-> rooms', users |-> users'] ]_vars
    /\ [](\A s \in DOMAIN conn :
             s \notin DOMAIN users
                => removeUser(rooms, users, s) = [rooms |-> rooms, users |-> users])

\* a connection was turned away, then a member left, then the next connection
\* was accepted into the place that had become free
C13_Witness ==
    /\ last.op = "connection"
    /\ last.ret # Thrown
    /\ last.socket \in Members(DefaultRoom)
    /\ \E s \in Sockets : conn[s] = "rejected"
    /\ conn[Leaver] = "closed"
    /\ Cardinality(Members(DefaultRoom)) = maxUsers

\* C14: when a join is rejected because the room is full, the server sends a
\* room-full notice to the rejected connection only, sends nothing about it to
\* any other connection, and registers it nowhere.
C14_RoomFullNotice ==
    [][ (last'.op = "connection" /\ last'.ret = Thrown)
        => /\ \E m \in emitted' : m.to = last'.socket /\ m.event = "room-full"
           /\ \A m \in emitted' : m.to = last'.socket
           /\ rooms' = rooms
           /\ users' = users ]_vars

\* C15: on a successful join the joiner is sent exactly one init snapshot with
\* the room state, the member list (the joiner included) and the joiner's own
\* user record, and user-joined is sent to every connection already in the room
\* and not to the joiner.
C15_JoinSnapshotAndAnnouncement ==
    [][ (last'.op = "connection" /\ last'.ret # Thrown)
        => LET s     == last'.socket
               inits == {m \in emitted' : m.event = "init"}
               joins == {m \in emitted' : m.event = "user-joined"}
           IN  /\ emitted' = inits \cup joins
               /\ Cardinality(inits) = 1
               /\ \A m \in inits :
                     /\ m.to = s
                     /\ m.payload.roomState =
                           [strokes       |-> Wire(heap', RS'.strokes),
                            undoneStrokes |-> Wire(heap', RS'.undoneStrokes),
                            version       |-> RS'.version]
                     /\ m.payload.users = getRoomUsers(rooms', users', DefaultRoom)
                     /\ {m.payload.users[i].id : i \in 1..Len(m.payload.users)}
                           = Members(DefaultRoom) \cup {s}
                     /\ m.payload.currentUser = users'[s]
                     /\ m.payload.currentUser.id = s
               /\ {m.to : m \in joins} = Members(DefaultRoom)
               /\ Members(DefaultRoom) = InRoom
               /\ s \notin Members(DefaultRoom)
               /\ Cardinality(joins) = Cardinality(InRoom)
               /\ \A m \in joins : m.payload = users'[s] ]_vars

\* a connection joined a room that already had members, a drawn action and a
\* connection that had left
C15_Witness ==
    /\ last.op = "connection"
    /\ last.ret # Thrown
    /\ \E m \in emitted : m.event = "init" /\ m.to = last.socket
                            /\ Len(m.payload.roomState.strokes) > 0
    /\ \E m \in emitted : m.event = "user-joined" /\ m.to # last.socket
    /\ \E s \in Sockets : conn[s] = "closed"

\* C16: no drawing intent changes the store before the sender's join was
\* accepted and its snapshot sent; a connection whose join was rejected never
\* mutates the store.
C16_OnlyJoinedConnectionsDraw ==
    /\ [][ (roomStates' # roomStates \/ heap' # heap)
           => /\ last'.op # "connection"
              /\ conn[last'.socket] = "open"
              /\ last'.socket \in DOMAIN users ]_vars
    /\ [][ \A s \in DOMAIN conn :
              conn[s] \in {"fresh", "rejected"}
                 => /\ \A r \in 1..Len(heap') : heap'[r].userId # s
                    /\ RS'.currentStrokes[s] = NoRef
                    /\ last'.socket = s => (roomStates' = roomStates /\ heap' = heap) ]_vars

\* one connection was turned away, a later one joined and drew
C16_Witness ==
    /\ \E s \in Sockets : conn[s] = "rejected"
    /\ last.op = "draw-start"
    /\ conn[last.socket] = "open"
    /\ Len(RS.strokes) = 1
    /\ heap[RS.strokes[1]].userId = last.socket

RelayEvent ==
    [op \in {"draw-start", "draw-move", "draw-end", "draw-shape", "add-text",
             "add-image", "fill-area", "cursor-move", "user-name"} |->
        IF op = "user-name" THEN "user-name-update" ELSE op]

\* C17: for stroke-start, stroke-point, stroke-end, shape, text, image, fill,
\* cursor-move and rename messages the relay goes to every other connection in
\* the sender's room, once each, and never to the sender.
C17_RelayToPeersOnly ==
    [][ last'.op \in DOMAIN RelayEvent
        => LET s == last'.socket
           IN  /\ \A m \in emitted' : m.event = RelayEvent[last'.op] /\ m.to # s
               /\ \A m, k \in emitted' : m.to = k.to => m = k
               /\ IF last'.op = "draw-move" /\ RS.currentStrokes[s] = NoRef
                  THEN emitted' = {}
                  ELSE {m.to : m \in emitted'} = Members(DefaultRoom) \ {s}
               /\ s \in Members(DefaultRoom)
               /\ Members(DefaultRoom) = InRoom ]_vars

\* a rename was relayed while one connection had been turned away and another
\* had left: neither of them is among the recipients
C17_Witness ==
    /\ last.op = "user-name"
    /\ \E s \in Sockets : conn[s] = "rejected"
    /\ conn[Leaver] = "closed"
    /\ {m.to : m \in emitted} = IdleIds \ {Leaver}

\* C18: a clear is broadcast to all connections in the room, the sender
\* included; a successful undo is broadcast with the undone action's id to all
\* connections, the sender included; a successful redo is broadcast with the
\* full redone action to the sender's peers only.
C18_ClearUndoToAllRedoToPeers ==
    [][ LET s == last'.socket
        IN  /\ last'.op = "clear-canvas"
               => /\ emitted' = {[to |-> t, event |-> "canvas-cleared", payload |-> Undefined] :
                                    t \in InRoom}
                  /\ \E m \in emitted' : m.to = s
            /\ (last'.op = "undo-request" /\ last'.ret # Null)
               => /\ emitted' = {[to |-> t, event |-> "stroke-undone",
                                  payload |-> IdOf(heap[Last(RS.strokes)])] : t \in InRoom}
                  /\ \E m \in emitted' : m.to = s
                  /\ last'.ret = Ref(Last(RS.strokes))
            /\ (last'.op = "redo-request" /\ last'.ret # Null)
               => /\ emitted' = {[to |-> t, event |-> "stroke-redone",
                                  payload |-> heap[Last(RS.undoneStrokes)]] : t \in InRoom \ {s}}
                  /\ last'.ret = Ref(Last(RS.undoneStrokes)) ]_vars

\* a peer's stroke was redone while both connections were in the room: one
\* message, to the peer, carrying the whole stroke
C18_Witness ==
    /\ last.op = "redo-request"
    /\ last.ret # Null
    /\ InRoom = Sockets
    /\ Cardinality(emitted) = 1
    /\ \A m \in emitted : /\ m.to # last.socket
                           /\ m.payload.type = "stroke"
                           /\ m.payload.userId = m.to
                           /\ Len(m.payload.points) > 0

\* C19: every inbound intent is applied to the store before anything is
\* relayed, and the payload relayed to peers is always the store's canonical
\* result for that intent, never the raw inbound message.
C19_RelayIsStoreResult ==
    [][ LET s   == last'.socket
            cur == RS.currentStrokes[s]
        IN  /\ last'.op = "draw-start"
               => \A m \in emitted' : /\ m.payload = heap'[Last(RS'.strokes)]
                                      /\ last'.ret = Ref(Last(RS'.strokes))
            /\ last'.op = "draw-move"
               => \A m \in emitted' : /\ cur # NoRef
                                      /\ m.payload.strokeId = heap'[cur].id
                                      /\ m.payload.point = Last(heap'[cur].points)
            /\ last'.op = "draw-end"
               => \A m \in emitted' : /\ cur # NoRef
                                      /\ m.payload.strokeId = heap'[cur].id
            /\ last'.op \in DiscreteOps
               => \A m \in emitted' : m.payload = heap'[Last(RS'.strokes)] ]_vars

\* C20: when an author disconnects while owning an in-progress stroke, the
\* author's entry is removed from the in-progress map at disconnect and the
\* stroke stays in the log with its points unchanged; so every key of the
\* in-progress map is a currently connected member of the room.
C20_DisconnectPrunesInProgress ==
    /\ [][ last'.op = "disconnect"
           => /\ RS'.currentStrokes[last'.socket] = NoRef
              /\ RS'.strokes = RS.strokes
              /\ heap' = heap ]_vars
    /\ [](\A u \in DOMAIN RS.currentStrokes :
             RS.currentStrokes[u] # NoRef => (conn[u] = "open" /\ u \in DOMAIN users))

\* C21: on disconnect the connection is removed from the registry and a
\* user-left announcement carrying its connection id is sent to every remaining
\* member of the room and to no one else.
C21_DisconnectAnnounced ==
    [][ last'.op = "disconnect"
        => LET s == last'.socket
           IN  /\ s \in DOMAIN users
               /\ s \notin DOMAIN users'
               /\ s \notin {rooms'[DefaultRoom].users[i] : i \in 1..Len(rooms'[DefaultRoom].users)}
               /\ emitted' = {[to |-> t, event |-> "user-left", payload |-> s] :
                                 t \in DOMAIN users'}
               /\ DOMAIN users' = {t \in DOMAIN conn : conn'[t] = "open"} ]_vars

\* a guest left a room in which one connection had been turned away and one
\* member had left before: the 49 remaining members are told, no one else
C21_Witness ==
    /\ last.op = "disconnect"
    /\ last.socket \in Sockets
    /\ \E s \in Sockets : conn[s] = "rejected"
    /\ conn[Leaver] = "closed"
    /\ {m.to : m \in emitted} = IdleIds \ {Leaver}
    /\ \A m \in emitted : m.payload = last.socket

\* the ids of the action log, in the order the store appended them
LogIds == [i \in 1..Len(RS.strokes) |-> IdOf(heap[RS.strokes[i]])]
Pos(seq, x) == CHOOSE i \in 1..Len(seq) : seq[i] = x

\* C22: with in-order delivery per connection, every connection observes the
\* appends to the action log in the relative order in which the store applied
\* them, a sender that applied its own action locally first included.
C22_SameOrderEverywhere ==
    \A c \in Sockets :
       \A i, j \in 1..Len(objects[c]) :
          (/\ i < j
           /\ \E k \in 1..Len(LogIds) : LogIds[k] = objects[c][i].id
           /\ \E k \in 1..Len(LogIds) : LogIds[k] = objects[c][j].id)
             => Pos(LogIds, objects[c][i].id) < Pos(LogIds, objects[c][j].id)

\* C23: the room state sent to a joining connection is a consistent
\* point-in-time view: it equals the store's state at one instant between two
\* whole operations (the instant of the join, which itself leaves the store
\* alone), with every mutation applied before it and none applied after it.
C23_SnapshotIsPointInTime ==
    [][ (last'.op = "connection" /\ last'.ret # Thrown)
        => /\ roomStates' = roomStates
           /\ heap' = heap
           /\ \A m \in emitted' :
                 m.event = "init"
                    => LET view == m.payload.roomState
                       IN  /\ view.version = RS.version
                           /\ Len(view.strokes) = Len(RS.strokes)
                           /\ \A i \in 1..Len(RS.strokes) :
                                 view.strokes[i] = heap[RS.strokes[i]]
                           /\ Len(view.undoneStrokes) = Len(RS.undoneStrokes)
                           /\ \A i \in 1..Len(RS.undoneStrokes) :
                                 view.undoneStrokes[i] = heap[RS.undoneStrokes[i]] ]_vars

\* a connection joined while a peer's stroke was in progress with two points
\* drawn: the snapshot holds exactly those two points
C23_Witness ==
    /\ last.op = "connection"
    /\ last.ret # Thrown
    /\ \E m \in emitted :
          /\ m.event = "init"
          /\ Len(m.payload.roomState.strokes) = 1
          /\ m.payload.roomState.strokes[1].type = "stroke"
          /\ Len(m.payload.roomState.strokes[1].points) = 2
          /\ m.payload.roomState.version = 3
    /\ \E u \in Sockets : RS.currentStrokes[u] # NoRef /\ u # last.socket

\* C24: a saved canvas holds a point-in-time copy of the room state: whenever
\* a saved record is fetched, the log, the redo stack and the version it
\* carries are those of the moment it was saved (the copy written to its
\* file), whatever was applied to the room since.
C24_SavedRecordIsFrozen ==
    [][ (last'.op = "get-canvas" /\ last'.ret.status = 200)
        => LET got   == last'.ret.body.data.roomState
               saved == files[last'.ret.body.id].data.roomState
           IN  /\ got.strokes = saved.strokes
               /\ got.undoneStrokes = saved.undoneStrokes
               /\ got.version = saved.version ]_vars

\* C25: loading a saved canvas answers success, installs the saved state and
\* leaves no stroke in progress, so a stroke-point that follows a load is
\* dropped.
C25_LoadResetsInProgress ==
    /\ [][ (last'.op = "load" /\ last'.ret.id \in DOMAIN savedCanvases)
           => /\ last'.ret.status = 200
              /\ RS'.version = files[last'.ret.id].data.roomState.version
              /\ \A u \in DOMAIN RS'.currentStrokes : RS'.currentStrokes[u] = NoRef ]_vars
    /\ [][ (last.op = "load" /\ last.ret.id \in DOMAIN savedCanvases /\ last'.op = "draw-move")
           => (last'.ret = Null /\ emitted' = {}) ]_vars

Rejected(s) ==
    /\ roomStates' = roomStates
    /\ heap' = heap
    /\ emitted' # {}
    /\ \A m \in emitted' : m.to = s /\ m.event = "error"

C27_MalformedIsRejected ==
    [][ \A s \in Sockets :
           /\ \A d \in BadStartData : handleDrawStart(s, d) => Rejected(s)
           /\ \A d \in BadMoveData : handleDrawMove(s, d) => Rejected(s)
           /\ \A d \in BadObjectData : handleDrawShape(s, d) => Rejected(s) ]_vars

\* C28: every action of the log has an id, and no two entries of the log and
\* the redo stack together carry the same id.
AllEntries == RS.strokes \o RS.undoneStrokes

C28_IdsPresentAndUnique ==
    /\ \A i \in 1..Len(RS.strokes) : IdOf(heap[RS.strokes[i]]) # NoId
    /\ \A i, j \in 1..Len(AllEntries) :
          i # j => IdOf(heap[AllEntries[i]]) # IdOf(heap[AllEntries[j]])

\* C29: a step changes a stored action only if that action is a stroke, in
\* the log, and its author's in-progress stroke when the step begins; an
\* ended or replaced stroke and every action of the redo stack keep their
\* content.
C29_OnlyInProgressStrokeChanges ==
    [][ \A r \in 1..Len(heap) :
           heap'[r] # heap[r]
              => /\ heap[r].type = "stroke"
                 /\ RS.currentStrokes[heap[r].userId] = r
                 /\ r \in Refs(RS.strokes)
                 /\ r \notin Refs(RS.undoneStrokes) ]_vars

\* C30: a rename takes effect once per connection: the first sets the name
\* and clears isGuest, a rename by a user who is no longer a guest leaves the
\* name as it is.
C30_RenameOnlyOnce ==
    [][ \A s \in Sockets :
           (last'.op = "user-name" /\ last'.socket = s /\ s \in DOMAIN users)
              => /\ users'[s].isGuest = FALSE
                 /\ users[s].isGuest = FALSE => users'[s].name = users[s].name ]_vars

\* C31: when the sender of a stroke-point has a stroke in progress, the point
\* becomes the last point of that stroke, the stroke is an entry of the
\* action log (so the log shows the point), no other action changes, and the
\* store returns the stroke's id with the point.
C31_PointAppendedInPlace ==
    [][ \A s \in Sockets :
           (last'.op = "draw-move" /\ last'.socket = s /\ RS.currentStrokes[s] # NoRef)
              => LET ref == RS.currentStrokes[s]
                 IN  /\ last'.ret # Null
                     /\ last'.ret.strokeId = heap[ref].id
                     /\ heap'[ref].points = Append(heap[ref].points, last'.ret.point)
                     /\ \A r \in 1..Len(heap) : r # ref => heap'[r] = heap[r]
                     /\ Len(heap') = Len(heap)
                     /\ RS'.strokes = RS.strokes
                     /\ ref \in Refs(RS'.strokes) ]_vars

C33_InProgressIsInLog ==
    \A u \in DOMAIN RS.currentStrokes :
       RS.currentStrokes[u] # NoRef => RS.currentStrokes[u] \in Refs(RS.strokes)

\* C34: a client that handles a stroke-undone or stroke-redone broadcast sends
\* no undo-request or redo-request of its own, so each undo or redo a user
\* initiates is applied once at the server.
C34_BroadcastCausesNoRequest ==
    [][ \A c \in Sockets :
           (/\ downstream[c] # <<>>
            /\ Head(downstream[c]).event \in {"stroke-undone", "stroke-redone"}
            /\ downstream'[c] = Tail(downstream[c]))
              => upstream'[c] = upstream[c] ]_vars

\* the events that carry an appended action to the peers
ActionEvents ==
    {"draw-start", "draw-shape", "fill-area", "add-text", "add-image", "stroke-redone"}

\* C35: a joining connection misses nothing and gets nothing twice: its
\* snapshot holds every action of the log at the moment of the join and is all
\* the join sends it; an action is relayed only in the step that appends it, so
\* never one that a snapshot already held; and every append by another
\* connection after the join is relayed to it.
C35_JoinerMissesNothing ==
    [][ /\ (last'.op = "connection" /\ last'.ret # Thrown)
            => /\ \E m \in emitted' : m.to = last'.socket
               /\ \A m \in emitted' :
                     m.to = last'.socket
                        => /\ m.event = "init"
                           /\ Len(m.payload.roomState.strokes) = Len(RS'.strokes)
                           /\ \A i \in 1..Len(RS'.strokes) :
                                 m.payload.roomState.strokes[i] = heap'[RS'.strokes[i]]
        /\ \A m \in emitted' :
              m.event \in ActionEvents
                 => /\ Len(RS'.strokes) = Len(RS.strokes) + 1
                    /\ Last(RS'.strokes) \notin Refs(RS.strokes)
                    /\ m.payload = heap'[Last(RS'.strokes)]
        /\ Len(RS'.strokes) > Len(RS.strokes)
            => \A c \in InRoom \ {last'.socket} :
                  \E m \in emitted' :
                     /\ m.to = c
                     /\ \/ m.event = "canvas-cleared"
                        \/ m.event \in ActionEvents /\ m.payload = heap'[Last(RS'.strokes)] ]_vars

\* a connection that joined when the log already held a stroke in progress is
\* relayed the shape a peer appends next
C35_Witness ==
    /\ last.op = "draw-shape"
    /\ Len(RS.strokes) = 2
    /\ heap[RS.strokes[1]].type = "stroke"
    /\ RS.currentStrokes[last.socket] = RS.strokes[1]
    /\ \E m \in emitted : m.to # last.socket /\ m.payload = heap[RS.strokes[2]]

\* C36: a stroke-point that carries a strokeId is appended only to the stroke
\* with that id; a point sent for an earlier stroke of its author is not
\* appended to the stroke the author started after it.
C36_PointGoesToNamedStroke ==
    [][ \A r \in 1..Len(heap) :
           (last'.op = "draw-move" /\ heap'[r] # heap[r])
              => IdOf(heap[r]) = Last(heap'[r].points).strokeId ]_vars

\* the case of the claim: the author's earlier stroke carries the point's id,
\* the point went to the newer one
C36_OlderStrokeNamed ==
    /\ last.op = "draw-move"
    /\ last.ret # Null
    /\ last.ret.strokeId # last.ret.point.strokeId
    /\ \E r \in 1..Len(heap) :
          /\ heap[r].userId = last.socket
          /\ IdOf(heap[r]) = last.ret.point.strokeId
          /\ r < RS.currentStrokes[last.socket]

\* the ids of the users getRoomUsers returns for the default room, in order
ListedIds ==
    LET listed == getRoomUsers(rooms, users, DefaultRoom)
    IN  [i \in 1..Len(listed) |-> listed[i].id]

\* C37: a connection id is a key of the user table exactly when it is in the
\* member set of the room its user record names, and getRoomUsers returns the
\* user records of the room's members, each once, in the order they joined:
\* a join puts the new user last, a leave takes one user out and keeps the
\* order of the others, and nothing else changes the list.
C37_RegistryConsistent ==
    /\ [](/\ \A id \in DOMAIN users :
               /\ users[id].id = id
               /\ users[id].roomId \in DOMAIN rooms
               /\ id \in Refs(rooms[users[id].roomId].users)
           /\ \A r \in DOMAIN rooms :
               /\ \A i \in 1..Len(rooms[r].users) :
                     /\ rooms[r].users[i] \in DOMAIN users
                     /\ users[rooms[r].users[i]].roomId = r
                     /\ \A j \in 1..Len(rooms[r].users) :
                           rooms[r].users[i] = rooms[r].users[j] => i = j
               /\ getRoomUsers(rooms, users, r) =
                     [i \in 1..Len(rooms[r].users) |-> users[rooms[r].users[i]]])
    /\ [][ IF last'.op = "connection" /\ last'.ret # Thrown
           THEN ListedIds' = Append(ListedIds, last'.socket)
           ELSE IF last'.op = "disconnect"
           THEN ListedIds' = SelectSeq(ListedIds, LAMBDA m : m # last'.socket)
           ELSE (rooms' = rooms /\ DOMAIN users' = DOMAIN users) \/ ListedIds' = ListedIds ]_vars

\* the first of two members has left: the table and the list hold the second
C37_Witness ==
    /\ last.op = "disconnect"
    /\ conn[last.socket] = "closed"
    /\ DOMAIN users # {}
    /\ \A id \in DOMAIN users : id > last.socket
    /\ ListedIds = rooms[DefaultRoom].users
    /\ Len(ListedIds) = Cardinality(DOMAIN users)

\* C38: a drawing intent issued while the client is disconnected is queued
\* behind the ones already waiting and not sent; the next connect sends the
\* queued intents in the order they were issued, each once, and leaves the
\* queue empty; when sending one fails, the ones before it are sent, it stays
\* at the head of the queue and the ones behind it keep their order. No
\* intent is ever both sent and queued, or sent or queued twice.
C38_PendingEventsInOrder ==
    /\ [][ \A c \in Sockets :
             (last'.op = "emit" /\ last'.socket = c /\ ~isConnected[c])
                => /\ upstream'[c] = upstream[c]
                   /\ Len(pendingEvents'[c]) = Len(pendingEvents[c]) + 1
                   /\ SubSeq(pendingEvents'[c], 1, Len(pendingEvents[c])) = pendingEvents[c]
                   /\ Last(pendingEvents'[c]).type \in IntentTypes ]_vars
    /\ [][ \A c \in Sockets :
             (last'.op = "connect" /\ last'.socket = c)
                => LET q    == pendingEvents[c]
                       k    == last'.ret.at
                       sent == SubSeq(upstream'[c], Len(upstream[c]) + 1, Len(upstream'[c]))
                   IN  IF k = 0
                       THEN /\ Intents(sent) = q
                            /\ pendingEvents'[c] = <<>>
                       ELSE /\ Intents(sent) = SubSeq(q, 1, k - 1)
                            /\ pendingEvents'[c] = SubSeq(q, k, Len(q)) ]_vars
    /\ [](\A c \in Sockets :
             LET all == Intents(upstream[c]) \o pendingEvents[c]
             IN  /\ \A i, j \in 1..Len(all) :
                       i # j => all[i].data.timestamp # all[j].data.timestamp
                 /\ \A i, j \in 1..Len(pendingEvents[c]) :
                       i < j => pendingEvents[c][i].data.timestamp
                                   < pendingEvents[c][j].data.timestamp)

\* a reconnect has sent two intents of different types that were queued, in
\* the order they were issued, and emptied the queue
C38_Witness ==
    /\ last.op = "connect"
    /\ last.ret.at = 0
    /\ pendingEvents[last.socket] = <<>>
    /\ Len(upstream[last.socket]) = 4
    /\ upstream[last.socket][1].type = "user-name"
    /\ upstream[last.socket][2].data.timestamp = 1
    /\ upstream[last.socket][3].data.timestamp = 2
    /\ upstream[last.socket][2].type # upstream[last.socket][3].type

\* what the store's operations return when they are applied to another room
\* than the default one, in the current state
OnOtherRoom ==
    {getRoomState(roomStates, UnknownRoom)}
    \cup {startStroke(roomStates, heap, UnknownRoom, s, d).roomStates :
             s \in Sockets, d \in StartData}
    \cup {addStrokePoint(roomStates, heap, UnknownRoom, s, d).roomStates :
             s \in Sockets, d \in MoveData}
    \cup {endStroke(roomStates, heap, UnknownRoom, s).roomStates : s \in Sockets}
    \cup {clearCanvas(roomStates, heap, UnknownRoom, now).roomStates : now \in Clock}
    \cup {undo(roomStates, heap, UnknownRoom).roomStates,
          redo(roomStates, heap, UnknownRoom).roomStates}

\* C39: a store operation on one room leaves every other room's state as it
\* was; a room's state is created on first reference with an empty log, an
\* empty redo stack, nothing in progress and version 1; and join, leave,
\* rename and cursor update change no room's log, redo stack, in-progress map
\* or version, nor any stored action.
C39_RoomsAreIndependent ==
    /\ [](/\ \A rs \in OnOtherRoom :
               /\ DOMAIN rs = DOMAIN roomStates \cup {UnknownRoom}
               /\ \A k \in DOMAIN roomStates : rs[k] = roomStates[k]
           /\ LET created == getRoomState(roomStates, UnknownRoom)[UnknownRoom]
              IN  /\ created.strokes = <<>>
                  /\ created.undoneStrokes = <<>>
                  /\ \A u \in DOMAIN created.currentStrokes : created.currentStrokes[u] = NoRef
                  /\ created.version = 1
           /\ \A s \in Sockets, d \in StartData, now \in Clock :
                 /\ \A r \in 1..Len(heap) :
                       /\ startStroke(roomStates, heap, UnknownRoom, s, d).heap[r] = heap[r]
                       /\ clearCanvas(roomStates, heap, UnknownRoom, now).heap[r] = heap[r]
                 /\ addStrokePoint(roomStates, heap, UnknownRoom, s, [x |-> d.x, strokeId |-> NoId]).heap = heap
                 /\ undo(roomStates, heap, UnknownRoom).heap = heap
                 /\ redo(roomStates, heap, UnknownRoom).heap = heap)
    /\ [][ last'.op \in {"connection", "disconnect", "user-name", "cursor-move"}
           => (roomStates' = roomStates /\ heap' = heap) ]_vars

\* a rename has just run in a room that holds an action, is past version 1 and
\* has a stroke in progress
C39_Witness ==
    /\ last.op = "user-name"
    /\ last.ret # Null
    /\ Len(RS.strokes) > 0
    /\ RS.version > 1
    /\ \E u \in DOMAIN RS.currentStrokes : RS.currentStrokes[u] # NoRef
    /\ UnknownRoom \notin DOMAIN roomStates

====
